---- MODULE Spec2Model ----
(***************************************************************************)
(* A model of src/main_train.py: the command line (main), the data split   *)
(* and the trainer set-up (train), and CustomTrainer's two overrides       *)
(* (compute_loss, create_scheduler) as the training loop of the            *)
(* transformers Trainer drives them.                                       *)
(*                                                                         *)
(* Three specifications:                                                   *)
(*   Spec       one run of main(): parse, load and split, TrainingArguments,*)
(*              CustomTrainer, trainer.train(), model.save_pretrained()     *)
(*   SpecSched  a constructed CustomTrainer whose create_scheduler is      *)
(*              called once and whose lr_scheduler is then stepped         *)
(*   SpecSplit  two invocations of the split of train(), one after the     *)
(*              other, each in a process of its own                        *)
(*                                                                         *)
(* Numbers: ratios are in hundredths (split_ratio 25 is 0.25, warmup 10 is *)
(* 0.1, weight_decay 1 is 0.01), the learning rate is in units of 1e-5,    *)
(* and a learning rate value is the exact fraction <<num, den>>.           *)
(***************************************************************************)
EXTENDS Integers, Sequences, FiniteSets, TLC

\* ------------------------------------------------------------------ bounds
MaxEpochs == 3
MaxMetric == 2
MaxSchedSteps == 2200
MaxSplitLen == 5

\* ------------------------------------------------------- program constants
NumLabels == 30
StepSize == 1080
GammaDen == 2
\* (a changed callback: one round of patience)
PatienceOne == 2 - 1
EarlyStoppingPatience == 2
SaveTotalLimit == 5
LoadBestModelAtEnd == TRUE

\* The loss names compute_loss has a branch for, and the --loss values tried
\* (argparse takes any string: --loss has no choices).
LossNames == {"CE", "LB", "focal", "f1"}
LossInputs == LossNames \cup {"dice"}
\* The scheduler names create_scheduler has a branch for, and the --scheduler
\* values tried.
SchedulerNames == {"linear", "cosine", "steplr"}
SchedulerInputs == SchedulerNames \cup {"poly"}

EpochInputs == 1..MaxEpochs
BatchInputs == {1, 2}
BatchValidInputs == {2}
WarmupInputs == {1, 10}
WeightDecayInputs == {1}
WarmupStepsInputs == {0, 2}
SplitRatioInputs == {10, 25}
MetricInputs == {"f1", "loss"}
LrInputs == {5}
DatasetLens == {8, 10}
MetricValues == 0..MaxMetric

\* Python's None, for a metric and for a checkpoint / weights version.
NoMetric == 0 - 1

CeilDiv(a, b) == (a + b - 1) \div b

VARIABLES
  pc,              \* position in main() / train() / trainer.train()
  error,           \* the exception that ended the run, "" when none
  args,            \* the argparse namespace
  fp_up,           \* 1 when the float product test_size * n_samples lands above the exact integer
  dataset_len,     \* len(train_dataset)
  X_train_len,     \* len(X_train)
  X_val_len,       \* len(X_val)
  training_args,   \* the TrainingArguments
  trainer,         \* CustomTrainer's own fields: loss_name, scheduler, num_training_steps
  lr_scheduler,    \* trainer.lr_scheduler
  sched_ret,       \* what create_scheduler returned (the id of the object), Uncalled before
  next_id,         \* the identity the next constructed object gets
  state,           \* TrainerState: global_step, max_steps, best_metric, best_model_checkpoint
  should_training_stop,  \* TrainerControl.should_training_stop
  early_stopping_patience_counter,
  forward_passes,  \* calls of model(**inputs)
  loss_result,     \* what the last compute_loss call returned
  eval_history,    \* the metric of every evaluation round so far
  checkpoints,     \* the steps whose checkpoint is on disk
  model_weights,   \* the step the model's weights come from (0: pretrained)
  saved_weights,   \* the weights under BEST_MODEL_DIR/<wandb_name>, Unsaved before
  runs             \* SpecSplit: the two invocations of the split

vars == <<pc, error, args, fp_up, dataset_len, X_train_len, X_val_len,
          training_args, trainer, lr_scheduler, sched_ret, next_id, state,
          should_training_stop, early_stopping_patience_counter,
          forward_passes, loss_result, eval_history, checkpoints,
          model_weights, saved_weights, runs>>

Uncalled == 0 - 1
Unsaved == 0 - 1
NoneObj == [kind |-> "None", id |-> 0]
NoResult == [kind |-> "none"]
NoRecord == [set |-> FALSE]

Init ==
  /\ pc = "main"
  /\ error = ""
  /\ args = NoRecord
  /\ fp_up \in {0, 1}
  /\ dataset_len = 0
  /\ X_train_len = 0
  /\ X_val_len = 0
  /\ training_args = NoRecord
  /\ trainer = NoRecord
  /\ lr_scheduler = NoneObj
  /\ sched_ret = Uncalled
  /\ next_id = 1
  /\ state = [global_step |-> 0, max_steps |-> 0, best_metric |-> NoMetric,
              best_model_checkpoint |-> 0]
  /\ should_training_stop = FALSE
  /\ early_stopping_patience_counter = 0
  /\ forward_passes = 0
  /\ loss_result = NoResult
  /\ eval_history = <<>>
  /\ checkpoints = {}
  /\ model_weights = 0
  /\ saved_weights = Unsaved
  /\ runs = <<>>

\* ------------------------------------------------------------ main()
\* parser.add_argument(...) for each flag, then parser.parse_args(): every
\* flag takes any value of its type.
ArgSpace ==
  [loss : LossInputs, scheduler : SchedulerInputs, epochs : EpochInputs,
   batch : BatchInputs, batch_valid : BatchValidInputs, warmup : WarmupInputs,
   weight_decay : WeightDecayInputs, warmup_steps : WarmupStepsInputs,
   split_ratio : SplitRatioInputs, metric_for_best_model : MetricInputs,
   lr : LrInputs]

ParseArgs ==
  /\ pc = "main"
  /\ \E a \in ArgSpace : args' = a
  /\ pc' = "train"
  /\ UNCHANGED <<error, fp_up, dataset_len, X_train_len, X_val_len,
                 training_args, trainer, lr_scheduler, sched_ret, next_id,
                 state, should_training_stop,
                 early_stopping_patience_counter, forward_passes, loss_result,
                 eval_history, checkpoints, model_weights, saved_weights, runs>>

\* ------------------------------------------------------------ the split
\* sklearn's _validate_shuffle_split for a float test_size and train_size None:
\* test_size outside (0, 1) is a ValueError, n_test = ceil(test_size * n),
\* n_train = n - n_test, and n_train = 0 is a ValueError. The product is a
\* float: where the exact value is an integer k and the ratio has no exact
\* binary form (it is no multiple of 0.25) the float may land just above k,
\* and the ceiling is then k + 1 (0.07 * 100 = 7.000000000000001).
ExactRatio(ratio) == ratio % 25 = 0

NTest(n, ratio, up) ==
  CeilDiv(ratio * n, 100)
    + (IF (ratio * n) % 100 = 0 /\ ~ExactRatio(ratio) THEN up ELSE 0)

validate_shuffle_split(n, ratio, up) ==
  IF ratio <= 0 \/ ratio >= 100
    THEN [ok |-> FALSE, n_train |-> 0, n_test |-> 0]
    ELSE LET n_test == NTest(n, ratio, up) IN
         IF n - n_test <= 0
           THEN [ok |-> FALSE, n_train |-> 0, n_test |-> n_test]
           ELSE [ok |-> TRUE, n_train |-> n - n_test, n_test |-> n_test]

\* train(): load_data, label_to_num, tokenized_dataset, (main_augmentation),
\* RE_Dataset, train_test_split.
LoadAndSplit ==
  /\ pc = "train"
  /\ \E n \in DatasetLens :
       LET s == validate_shuffle_split(n, args.split_ratio, fp_up) IN
       /\ dataset_len' = n
       /\ IF s.ok
            THEN /\ X_train_len' = s.n_train
                 /\ X_val_len' = s.n_test
                 /\ pc' = "split_done"
                 /\ error' = error
            ELSE /\ UNCHANGED <<X_train_len, X_val_len>>
                 /\ pc' = "error"
                 /\ error' = "ValueError"
  /\ UNCHANGED <<args, fp_up, training_args, trainer, lr_scheduler, sched_ret,
                 next_id, state, should_training_stop,
                 early_stopping_patience_counter, forward_passes, loss_result,
                 eval_history, checkpoints, model_weights, saved_weights, runs>>

\* ------------------------------------------------------ TrainingArguments
\* TrainingArguments(...) as train() fills it. greater_is_better is what
\* TrainingArguments.__post_init__ derives when it is not given: False for
\* "loss" / "eval_loss", True for any other metric. warmup_ratio is not given
\* and keeps its default 0.
MakeTrainingArguments(a, n) ==
  [set |-> TRUE,
   save_total_limit |-> SaveTotalLimit,
   save_steps |-> (n \div a.batch) \div 2,
   num_train_epochs |-> a.epochs,
   learning_rate |-> a.lr,
   per_device_train_batch_size |-> a.batch,
   per_device_eval_batch_size |-> a.batch_valid,
   warmup_steps |-> a.warmup_steps,
   warmup_ratio |-> 0,
   weight_decay |-> a.warmup,
   eval_steps |-> (n \div a.batch) \div 2,
   load_best_model_at_end |-> LoadBestModelAtEnd,
   metric_for_best_model |-> a.metric_for_best_model,
   greater_is_better |-> a.metric_for_best_model \notin {"loss", "eval_loss"}]

BuildTrainingArguments ==
  /\ pc = "split_done"
  /\ training_args' = MakeTrainingArguments(args, dataset_len)
  /\ pc' = "args_built"
  /\ UNCHANGED <<error, args, fp_up, dataset_len, X_train_len, X_val_len,
                 trainer, lr_scheduler, sched_ret, next_id, state,
                 should_training_stop, early_stopping_patience_counter,
                 forward_passes, loss_result, eval_history, checkpoints,
                 model_weights, saved_weights, runs>>

\* --------------------------------------------------- CustomTrainer.__init__
\* super().__init__ leaves lr_scheduler None (optimizers = (None, None)); the
\* three fields of its own are stored as given.
MakeTrainer(loss_name, scheduler, num_training_steps) ==
  [set |-> TRUE, loss_name |-> loss_name, scheduler |-> scheduler,
   num_training_steps |-> num_training_steps]

ConstructTrainer ==
  /\ pc = "args_built"
  /\ trainer' = MakeTrainer(args.loss, args.scheduler,
                            (args.epochs * dataset_len) \div args.batch)
  /\ lr_scheduler' = NoneObj
  /\ pc' = "constructed"
  /\ UNCHANGED <<error, args, fp_up, dataset_len, X_train_len, X_val_len,
                 training_args, sched_ret, next_id, state,
                 should_training_stop, early_stopping_patience_counter,
                 forward_passes, loss_result, eval_history, checkpoints,
                 model_weights, saved_weights, runs>>

\* ------------------------------------------------- create_scheduler
\* TrainingArguments.get_warmup_steps: warmup_steps when positive, else
\* ceil(num_training_steps * warmup_ratio).
get_warmup_steps(targs, num_training_steps) ==
  IF targs.warmup_steps > 0
    THEN targs.warmup_steps
    ELSE CeilDiv(num_training_steps * targs.warmup_ratio, 100)

\* transformers.get_scheduler(name, optimizer, num_warmup_steps,
\* num_training_steps): a LambdaLR over the optimizer, not yet stepped.
get_scheduler(name, id, base_lr, num_warmup_steps, num_training_steps) ==
  [kind |-> name, id |-> id, base_lr |-> base_lr,
   num_warmup_steps |-> num_warmup_steps,
   num_training_steps |-> num_training_steps, last_epoch |-> 0]

\* torch.optim.lr_scheduler.StepLR(optimizer, step_size, gamma = 1 / gamma_den):
\* the optimizer's rate starts at its base value.
StepLR(id, base_lr, step_size, gamma_den) ==
  [kind |-> "StepLR", id |-> id, base_lr |-> base_lr, step_size |-> step_size,
   gamma_den |-> gamma_den, last_epoch |-> 0, lr |-> <<base_lr, 1>>]

\* (a changed create_scheduler: the total taken from the stored field)
create_scheduler_stored_total(num_training_steps) ==
  IF trainer.scheduler = "cosine"
    THEN get_scheduler("cosine_with_restarts", next_id,
                       training_args.learning_rate,
                       get_warmup_steps(training_args, trainer.num_training_steps),
                       trainer.num_training_steps)
    ELSE IF trainer.scheduler = "steplr"
           THEN StepLR(next_id, training_args.learning_rate, StepSize, GammaDen)
           ELSE lr_scheduler

\* (a changed create_scheduler: the step interval taken from the warmup steps)
create_scheduler_warmup_interval(num_training_steps) ==
  IF trainer.scheduler = "cosine"
    THEN get_scheduler("cosine_with_restarts", next_id,
                       training_args.learning_rate,
                       get_warmup_steps(training_args, num_training_steps),
                       num_training_steps)
    ELSE IF trainer.scheduler = "steplr"
           THEN StepLR(next_id, training_args.learning_rate,
                       IF training_args.warmup_steps > 0
                         THEN training_args.warmup_steps ELSE StepSize,
                       GammaDen)
           ELSE lr_scheduler

\* The value self.lr_scheduler holds when create_scheduler returns. For
\* "linear" only my_scheduler is bound: the get_scheduler call sits inside the
\* "cosine" branch. For a name with no branch nothing is assigned.
create_scheduler(num_training_steps) ==
  IF trainer.scheduler = "linear" \/ trainer.scheduler = "cosine"
    THEN IF trainer.scheduler = "linear"
           THEN lr_scheduler
           ELSE get_scheduler("cosine_with_restarts", next_id,
                              training_args.learning_rate,
                              get_warmup_steps(training_args, num_training_steps),
                              num_training_steps)
    ELSE IF trainer.scheduler = "steplr"
           THEN StepLR(next_id, training_args.learning_rate, StepSize, GammaDen)
           ELSE lr_scheduler

\* lr_scheduler.step(). StepLR.get_lr: the rate is multiplied by gamma when
\* the new last_epoch is a positive multiple of step_size.
scheduler_step(s) ==
  IF s.kind = "StepLR"
    THEN [s EXCEPT !.last_epoch = @ + 1,
                   !.lr = IF (s.last_epoch + 1) % s.step_size = 0
                            THEN <<@[1], @[2] * s.gamma_den>>
                            ELSE @]
    ELSE [s EXCEPT !.last_epoch = @ + 1]

\* ------------------------------------------------- trainer.train(): set-up
\* len(train_dataloader) updates per epoch (no gradient accumulation),
\* max_steps = num_train_epochs * that; create_optimizer_and_scheduler calls
\* create_scheduler(num_training_steps = max_steps).
UpdatesPerEpoch == CeilDiv(X_train_len, training_args.per_device_train_batch_size)

TrainBegin ==
  /\ pc = "constructed"
  /\ LET max_steps == training_args.num_train_epochs * UpdatesPerEpoch
         made == create_scheduler(max_steps) IN
       /\ state' = [state EXCEPT !.max_steps = max_steps]
       /\ lr_scheduler' = made
       /\ sched_ret' = made.id
       /\ next_id' = IF made.id = next_id THEN next_id + 1 ELSE next_id
  /\ pc' = "training"
  /\ UNCHANGED <<error, args, fp_up, dataset_len, X_train_len, X_val_len,
                 training_args, trainer, should_training_stop,
                 early_stopping_patience_counter, forward_passes, loss_result,
                 eval_history, checkpoints, model_weights, saved_weights, runs>>

\* ------------------------------------------------- compute_loss
\* The if / elif chain of compute_loss: what loss_fct is bound to. For "CE" it
\* is the class nn.CrossEntropyLoss itself, for the next three an instance,
\* and for any other name loss_fct is never bound.
LossFct(loss_name) ==
  IF loss_name = "CE" THEN [bound |-> TRUE, class |-> "CrossEntropyLoss", instance |-> FALSE]
  ELSE IF loss_name = "LB" THEN [bound |-> TRUE, class |-> "LabelSmoothingLoss", instance |-> TRUE]
  ELSE IF loss_name = "focal" THEN [bound |-> TRUE, class |-> "FocalLoss", instance |-> TRUE]
  ELSE IF loss_name = "f1" THEN [bound |-> TRUE, class |-> "F1Loss", instance |-> TRUE]
  ELSE [bound |-> FALSE, class |-> "", instance |-> FALSE]

\* tensor.view(-1, cols): the rows of a tensor of numel elements.
ViewRows(numel, cols) == numel \div cols

\* compute_loss(model, inputs, return_outputs) on a batch of `rows` examples:
\* what it raises ("" when nothing) and what it returns. The call
\* loss_fct(logits.view(-1, num_labels), labels.view(-1)) applies an instance
\* to the batch and gives a scalar; on the class it is the constructor
\* CrossEntropyLoss(weight = logits, size_average = labels), which takes the
\* truth value of the labels tensor (a RuntimeError for more than one element)
\* and otherwise gives a loss module, not a number.
compute_loss(loss_name, rows, return_outputs) ==
  LET fct == LossFct(loss_name)
      r == ViewRows(rows * NumLabels, NumLabels)
  IN  IF ~fct.bound
        THEN [raised |-> "UnboundLocalError", ret |-> NoResult]
      ELSE IF fct.instance
        THEN [raised |-> "",
              ret |-> [kind |-> "scalar", class |-> fct.class,
                       logits_shape |-> <<r, NumLabels>>, labels_shape |-> <<rows>>,
                       with_outputs |-> return_outputs]]
      ELSE IF rows > 1
        THEN [raised |-> "RuntimeError", ret |-> NoResult]
        ELSE [raised |-> "",
              ret |-> [kind |-> "module", class |-> fct.class,
                       logits_shape |-> <<r, NumLabels>>, labels_shape |-> <<rows>>,
                       with_outputs |-> return_outputs]]

\* The size of batch number i (from 0) of a pass over `len` examples in
\* batches of `batch` (drop_last is off: the last batch holds the rest).
BatchRows(i, len, batch) ==
  IF i = CeilDiv(len, batch) - 1 THEN len - i * batch ELSE batch

\* ------------------------------------------------- trainer.train(): a step
\* One update of the inner loop: training_step (compute_loss, loss.backward),
\* optimizer.step, lr_scheduler.step, global_step += 1, then on_step_end of
\* DefaultFlowCallback: evaluate (and save) every eval_steps, stop at max_steps.
TrainingStep ==
  /\ pc = "training"
  /\ LET rows == BatchRows(state.global_step % UpdatesPerEpoch, X_train_len,
                           training_args.per_device_train_batch_size)
         r == compute_loss(trainer.loss_name, rows, FALSE)
         step == state.global_step + 1
     IN
       /\ forward_passes' = forward_passes + 1
       /\ IF r.raised # ""
            THEN /\ pc' = "error"
                 /\ error' = r.raised
                 /\ UNCHANGED <<loss_result, model_weights, lr_scheduler,
                                state, should_training_stop>>
          ELSE IF r.ret.kind # "scalar"
            \* loss.backward() on a value that is no tensor
            THEN /\ pc' = "error"
                 /\ error' = "AttributeError"
                 /\ loss_result' = r.ret
                 /\ UNCHANGED <<model_weights, lr_scheduler, state,
                                should_training_stop>>
          ELSE IF lr_scheduler.kind = "None"
            \* optimizer.step() is done, self.lr_scheduler.step() on None
            THEN /\ pc' = "error"
                 /\ error' = "AttributeError"
                 /\ loss_result' = r.ret
                 /\ model_weights' = step
                 /\ UNCHANGED <<lr_scheduler, state, should_training_stop>>
          ELSE /\ loss_result' = r.ret
               /\ model_weights' = step
               /\ lr_scheduler' = scheduler_step(lr_scheduler)
               /\ state' = [state EXCEPT !.global_step = step]
               /\ should_training_stop' = (step >= state.max_steps)
               /\ error' = error
               /\ pc' = IF step % training_args.eval_steps = 0 THEN "evaluating"
                        ELSE IF step >= state.max_steps THEN "train_end"
                        ELSE "training"
  /\ UNCHANGED <<args, fp_up, dataset_len, X_train_len, X_val_len,
                 training_args, trainer, sched_ret, next_id,
                 early_stopping_patience_counter, eval_history, checkpoints,
                 saved_weights, runs>>

\* ------------------------------------------------- evaluation and checkpoint
\* EarlyStoppingCallback.check_metric_value (threshold 0): the round improves
\* when there is no best metric yet or the metric beats it strictly.
Improves(metric, best, greater_is_better) ==
  \/ best = NoMetric
  \/ IF greater_is_better THEN metric > best ELSE metric < best

\* _rotate_checkpoints: beyond save_total_limit the oldest checkpoints go,
\* never the best one.
RECURSIVE Rotate(_, _, _)
Rotate(cps, best, limit) ==
  IF Cardinality(cps) <= limit \/ cps \ {best} = {}
    THEN cps
    ELSE LET oldest == CHOOSE c \in cps \ {best} : \A d \in cps \ {best} : c <= d
         IN  Rotate(cps \ {oldest}, best, limit)

\* _maybe_log_save_evaluate when should_evaluate and should_save are set (they
\* are set together: eval_steps = save_steps): evaluate() runs compute_loss
\* with return_outputs on every validation batch and yields the metric,
\* on_evaluate runs the early-stopping callback (patience as constructed),
\* _save_checkpoint writes the checkpoint and updates the best one.
\* compute_metrics (utilities, not in this file) is taken to report the
\* metric --metric_for_best_model names; its value is any of MetricValues.
Evaluate ==
  /\ pc = "evaluating"
  /\ \E metric \in MetricValues :
       LET n_batches == CeilDiv(X_val_len, training_args.per_device_eval_batch_size)
           rows == BatchRows(n_batches - 1, X_val_len,
                             training_args.per_device_eval_batch_size)
           r == compute_loss(trainer.loss_name, rows, TRUE)
           gib == training_args.greater_is_better
           counter == IF Improves(metric, state.best_metric, gib)
                        THEN 0 ELSE early_stopping_patience_counter + 1
           stop == should_training_stop \/ counter >= EarlyStoppingPatience
           newbest == \/ state.best_metric = NoMetric
                      \/ state.best_model_checkpoint = 0
                      \/ IF gib THEN metric > state.best_metric
                                ELSE metric < state.best_metric
           best == IF newbest THEN state.global_step ELSE state.best_model_checkpoint
       IN
         /\ forward_passes' = forward_passes + n_batches
         /\ loss_result' = r.ret
         /\ eval_history' = Append(eval_history, metric)
         /\ early_stopping_patience_counter' = counter
         /\ should_training_stop' = stop
         /\ state' = [state EXCEPT
                        !.best_metric = IF newbest THEN metric ELSE @,
                        !.best_model_checkpoint = best]
         /\ checkpoints' = Rotate(checkpoints \cup {state.global_step}, best,
                                  training_args.save_total_limit)
         /\ pc' = IF stop THEN "train_end" ELSE "training"
  /\ UNCHANGED <<error, args, fp_up, dataset_len, X_train_len, X_val_len,
                 training_args, trainer, lr_scheduler, sched_ret, next_id,
                 model_weights, saved_weights, runs>>

\* The end of trainer.train(): with load_best_model_at_end and a best
\* checkpoint on disk, its weights are loaded into the model.
TrainEnd ==
  /\ pc = "train_end"
  /\ model_weights' =
       IF training_args.load_best_model_at_end
          /\ state.best_model_checkpoint # 0
          /\ state.best_model_checkpoint \in checkpoints
         THEN state.best_model_checkpoint
         ELSE model_weights
  /\ pc' = "trained"
  /\ UNCHANGED <<error, args, fp_up, dataset_len, X_train_len, X_val_len,
                 training_args, trainer, lr_scheduler, sched_ret, next_id,
                 state, should_training_stop, early_stopping_patience_counter,
                 forward_passes, loss_result, eval_history, checkpoints,
                 saved_weights, runs>>

\* model.save_pretrained(os.path.join(BEST_MODEL_DIR, args.wandb_name))
SavePretrained ==
  /\ pc = "trained"
  /\ saved_weights' = model_weights
  /\ pc' = "done"
  /\ UNCHANGED <<error, args, fp_up, dataset_len, X_train_len, X_val_len,
                 training_args, trainer, lr_scheduler, sched_ret, next_id,
                 state, should_training_stop, early_stopping_patience_counter,
                 forward_passes, loss_result, eval_history, checkpoints,
                 model_weights, runs>>

Next ==
  \/ ParseArgs
  \/ LoadAndSplit
  \/ BuildTrainingArguments
  \/ ConstructTrainer
  \/ TrainBegin
  \/ TrainingStep
  \/ Evaluate
  \/ TrainEnd
  \/ SavePretrained

Spec == Init /\ [][Next]_vars

\* ------------------------------------------------------------ SpecSched
\* A CustomTrainer as train() constructs it, for every scheduler name, base
\* rate and warmup_steps tried; create_scheduler is then called with a total
\* step count and the schedule stepped once per optimizer step.
SchedArgSpace ==
  [loss : {"focal"}, scheduler : SchedulerInputs, epochs : {1},
   batch : {2}, batch_valid : BatchValidInputs, warmup : {10},
   weight_decay : {1}, warmup_steps : {0, 810}, split_ratio : {25},
   metric_for_best_model : {"f1"}, lr : {2, 5}]
SchedTotals == {1000, 4000}

SchedInit ==
  /\ pc = "constructed"
  /\ error = ""
  /\ args \in SchedArgSpace
  /\ fp_up = 0
  /\ dataset_len \in DatasetLens
  /\ X_train_len = validate_shuffle_split(dataset_len, args.split_ratio, fp_up).n_train
  /\ X_val_len = validate_shuffle_split(dataset_len, args.split_ratio, fp_up).n_test
  /\ training_args = MakeTrainingArguments(args, dataset_len)
  /\ trainer = MakeTrainer(args.loss, args.scheduler,
                           (args.epochs * dataset_len) \div args.batch)
  /\ lr_scheduler = NoneObj
  /\ sched_ret = Uncalled
  /\ next_id = 1
  /\ state = [global_step |-> 0, max_steps |-> 0, best_metric |-> NoMetric,
              best_model_checkpoint |-> 0]
  /\ should_training_stop = FALSE
  /\ early_stopping_patience_counter = 0
  /\ forward_passes = 0
  /\ loss_result = NoResult
  /\ eval_history = <<>>
  /\ checkpoints = {}
  /\ model_weights = 0
  /\ saved_weights = Unsaved
  /\ runs = <<>>

\* trainer.create_scheduler(num_training_steps)
SchedCreate ==
  /\ pc = "constructed"
  /\ \E total \in SchedTotals :
       LET made == create_scheduler(total) IN
         /\ state' = [state EXCEPT !.max_steps = total]
         /\ lr_scheduler' = made
         /\ sched_ret' = made.id
         /\ next_id' = IF made.id = next_id THEN next_id + 1 ELSE next_id
  /\ pc' = "sched_created"
  /\ UNCHANGED <<error, args, fp_up, dataset_len, X_train_len, X_val_len,
                 training_args, trainer, should_training_stop,
                 early_stopping_patience_counter, forward_passes, loss_result,
                 eval_history, checkpoints, model_weights, saved_weights, runs>>

\* trainer.lr_scheduler.step()
SchedStep ==
  /\ pc = "sched_created"
  /\ state.global_step < MaxSchedSteps
  /\ IF lr_scheduler.kind = "None"
       THEN /\ pc' = "error"
            /\ error' = "AttributeError"
            /\ UNCHANGED <<lr_scheduler, state>>
       ELSE /\ lr_scheduler' = scheduler_step(lr_scheduler)
            /\ state' = [state EXCEPT !.global_step = @ + 1]
            /\ UNCHANGED <<pc, error>>
  /\ UNCHANGED <<args, fp_up, dataset_len, X_train_len, X_val_len,
                 training_args, trainer, sched_ret, next_id,
                 should_training_stop, early_stopping_patience_counter,
                 forward_passes, loss_result, eval_history, checkpoints,
                 model_weights, saved_weights, runs>>

SchedNext == SchedCreate \/ SchedStep

SpecSched == SchedInit /\ [][SchedNext]_vars

\* ------------------------------------------------------------ SpecSplit
\* Two invocations of the program, the second after the first, up to the
\* split. Each is a process of its own: numpy's global generator is seeded
\* from the system's entropy at start (nothing in main() seeds it), so its
\* state is any state. The generator itself (MT19937) is stood for by a
\* 16-state linear congruential generator, and permutation() is numpy's
\* shuffle of arange(n): for i = n-1 down to 1, swap x[i] with x[j], j drawn
\* from 0..i.
Runs == {1, 2}
SeedInputs == {0, 1, 42}
SplitRatios == {0, 20, 25, 50}
SplitLens == 1..MaxSplitLen
GlobalStates == {3, 11}

RngSeed(seed) == seed % 16
RngNext(s) == (5 * s + 3) % 16

Swap(x, i, j) == [x EXCEPT ![i] = x[j], ![j] = x[i]]

RECURSIVE Shuffle(_, _, _)
Shuffle(x, i, s) ==
  IF i < 2 THEN x
  ELSE LET s2 == RngNext(s)
           j == (s2 % i) + 1
       IN  Shuffle(Swap(x, i, j), i - 1, s2)

permutation(n, s) == Shuffle([k \in 1..n |-> k], n, s)

\* (a changed split: random_state left out, the global generator is used)
check_random_state_global(seed, global_state) == global_state

\* sklearn's check_random_state for random_state = args.seed, an int: a new
\* RandomState(seed), whatever the global generator holds.
check_random_state(seed, global_state) == RngSeed(seed)

\* train_test_split(RE_train_dataset, test_size = ratio, random_state = seed):
\* ShuffleSplit's one split, test first, then the examples picked by index.
train_test_split(n, ratio, seed, global_state, up) ==
  LET v == validate_shuffle_split(n, ratio, up) IN
  IF ~v.ok
    THEN [ok |-> FALSE, train |-> <<>>, test |-> <<>>]
    ELSE LET perm == permutation(n, check_random_state(seed, global_state))
         IN  [ok |-> TRUE,
              train |-> SubSeq(perm, v.n_test + 1, v.n_test + v.n_train),
              test |-> SubSeq(perm, 1, v.n_test)]

IdleRun ==
  [pc |-> "idle", seed |-> 0, split_ratio |-> 0, n |-> 0, np_random |-> 0,
   X_train |-> <<>>, X_val |-> <<>>]

SplitInit ==
  /\ pc = "main"
  /\ error = ""
  /\ args = NoRecord
  /\ fp_up \in {0, 1}
  /\ dataset_len = 0
  /\ X_train_len = 0
  /\ X_val_len = 0
  /\ training_args = NoRecord
  /\ trainer = NoRecord
  /\ lr_scheduler = NoneObj
  /\ sched_ret = Uncalled
  /\ next_id = 1
  /\ state = [global_step |-> 0, max_steps |-> 0, best_metric |-> NoMetric,
              best_model_checkpoint |-> 0]
  /\ should_training_stop = FALSE
  /\ early_stopping_patience_counter = 0
  /\ forward_passes = 0
  /\ loss_result = NoResult
  /\ eval_history = <<>>
  /\ checkpoints = {}
  /\ model_weights = 0
  /\ saved_weights = Unsaved
  /\ runs = [r \in Runs |-> IdleRun]

\* main() up to train(): the process starts, the flags are parsed, the data
\* is loaded.
SplitStart(r) ==
  /\ runs[r].pc = "idle"
  /\ \A q \in Runs : q < r => runs[q].pc \in {"split", "error"}
  /\ \E seed \in SeedInputs, ratio \in SplitRatios, n \in SplitLens,
        g \in GlobalStates :
       runs' = [runs EXCEPT ![r] =
                  [pc |-> "train", seed |-> seed, split_ratio |-> ratio,
                   n |-> n, np_random |-> g, X_train |-> <<>>, X_val |-> <<>>]]
  /\ UNCHANGED <<pc, error, args, fp_up, dataset_len, X_train_len, X_val_len,
                 training_args, trainer, lr_scheduler, sched_ret, next_id,
                 state, should_training_stop,
                 early_stopping_patience_counter, forward_passes, loss_result,
                 eval_history, checkpoints, model_weights, saved_weights>>

\* X_train, X_val = train_test_split(RE_train_dataset,
\*                    test_size = args.split_ratio, random_state = args.seed)
SplitCall(r) ==
  /\ runs[r].pc = "train"
  /\ LET s == train_test_split(runs[r].n, runs[r].split_ratio, runs[r].seed,
                               runs[r].np_random, fp_up)
     IN  runs' = [runs EXCEPT ![r] =
                    IF s.ok
                      THEN [@ EXCEPT !.pc = "split", !.X_train = s.train,
                                     !.X_val = s.test]
                      ELSE [@ EXCEPT !.pc = "error"]]
  /\ UNCHANGED <<pc, error, args, fp_up, dataset_len, X_train_len, X_val_len,
                 training_args, trainer, lr_scheduler, sched_ret, next_id,
                 state, should_training_stop,
                 early_stopping_patience_counter, forward_passes, loss_result,
                 eval_history, checkpoints, model_weights, saved_weights>>

SplitNext == \E r \in Runs : SplitStart(r) \/ SplitCall(r)

SpecSplit == SplitInit /\ [][SplitNext]_vars

\* ==================================================================== claims

Range(f) == {f[i] : i \in DOMAIN f}

RECURSIVE Pow(_, _)
Pow(b, k) == IF k = 0 THEN 1 ELSE b * Pow(b, k - 1)

\* The loss variant each supported name stands for (cross-entropy,
\* label smoothing, focal, soft F1).
LossClass ==
  [n \in LossNames |->
     CASE n = "CE" -> "CrossEntropyLoss" [] n = "LB" -> "LabelSmoothingLoss"
       [] n = "focal" -> "FocalLoss" [] n = "f1" -> "F1Loss"]

\* -------------------------------------------------------------------- C1
\* C1: for every supported loss name, a compute_loss call returns a scalar
\* loss of the variant the name stands for, computed on logits of shape
\* (batch, num_labels) and labels of shape (batch,); for "CE" a cross-entropy
\* value, not a loss-function object. (Stated of every run in which
\* compute_loss has been entered.)
C1_ComputeLossReturnsScalar ==
  (trainer.set /\ trainer.loss_name \in LossNames /\ forward_passes > 0) =>
     /\ loss_result.kind = "scalar"
     /\ loss_result.class = LossClass[trainer.loss_name]
     /\ loss_result.logits_shape[2] = NumLabels
     /\ loss_result.labels_shape = <<loss_result.logits_shape[1]>>

\* -------------------------------------------------------------------- C2
\* C2: for the scheduler name "linear", once create_scheduler has returned,
\* lr_scheduler is a linear warmup/decay schedule object (never the unset
\* value) and it is the object returned.
C2_LinearScheduleBuilt ==
  (trainer.set /\ trainer.scheduler = "linear" /\ sched_ret # Uncalled) =>
     /\ lr_scheduler.kind = "linear"
     /\ sched_ret = lr_scheduler.id

\* -------------------------------------------------------------------- C3
\* C3: for the scheduler name "cosine", once create_scheduler has returned,
\* lr_scheduler is the cosine-with-restarts schedule whose warmup is the
\* training arguments' warmup steps and whose total is the step count passed
\* in, and the returned object is that same object.
C3_CosineScheduleBuilt ==
  (trainer.set /\ trainer.scheduler = "cosine" /\ sched_ret # Uncalled) =>
     /\ lr_scheduler.kind = "cosine_with_restarts"
     /\ lr_scheduler.num_warmup_steps = args.warmup_steps
     /\ lr_scheduler.num_training_steps = state.max_steps
     /\ lr_scheduler.base_lr = args.lr
     /\ lr_scheduler.id # 0
     /\ sched_ret = lr_scheduler.id

\* A run with "cosine" and a positive warmup in which the schedule has been
\* built with a total that differs from the stored num_training_steps, and
\* has been stepped.
C3_Witness ==
  /\ trainer.set
  /\ trainer.scheduler = "cosine"
  /\ sched_ret # Uncalled
  /\ args.warmup_steps > 0
  /\ state.max_steps # trainer.num_training_steps
  /\ lr_scheduler.last_epoch > 0

\* -------------------------------------------------------------------- C4
\* C4: for the scheduler name "steplr" the schedule is a StepLR and after s
\* scheduler steps the rate is base_lr * 0.5^(s div 1080): base_lr before
\* step 1080, half of it from 1080, a quarter from 2160, whatever the
\* warmup_steps and the total step count.
C4_StepLRHalvesEvery1080 ==
  (trainer.set /\ trainer.scheduler = "steplr" /\ sched_ret # Uncalled) =>
     /\ lr_scheduler.kind = "StepLR"
     /\ lr_scheduler.lr = <<args.lr, Pow(2, state.global_step \div 1080)>>
     /\ (state.global_step < 1080 => lr_scheduler.lr = <<args.lr, 1>>)
     /\ (state.global_step = 1080 => lr_scheduler.lr = <<args.lr, 2>>)
     /\ (state.global_step = 2160 => lr_scheduler.lr = <<args.lr, 4>>)

\* "steplr" with a positive warmup_steps, stepped 2160 times: a quarter of the
\* base rate.
C4_Witness ==
  /\ trainer.set
  /\ trainer.scheduler = "steplr"
  /\ training_args.warmup_steps > 0
  /\ state.global_step = 2160
  /\ lr_scheduler.kind = "StepLR"
  /\ lr_scheduler.lr[2] = 4

\* -------------------------------------------------------------------- C5
\* C5: a loss name outside {CE, LB, focal, f1} is rejected at startup: no
\* forward pass of the model is ever executed under such a name.
C5_UnknownLossRejectedAtStartup ==
  (pc # "main" /\ args.loss \notin LossNames) => forward_passes = 0

\* -------------------------------------------------------------------- C6
\* C6: for a scheduler name outside {linear, cosine, steplr}, create_scheduler
\* never returns normally.
C6_UnknownSchedulerRejected ==
  (trainer.set /\ trainer.scheduler \notin SchedulerNames) => sched_ret = Uncalled

\* -------------------------------------------------------------------- C7
\* The evaluation round (from 1) whose metric is the best so far: the first
\* round no other round beats.
Beats(a, b) == IF training_args.greater_is_better THEN a > b ELSE a < b

BestRound(hist) ==
  CHOOSE i \in 1..Len(hist) :
    /\ \A j \in 1..Len(hist) : ~Beats(hist[j], hist[i])
    /\ \A j \in 1..(i - 1) : Beats(hist[i], hist[j])

\* The evaluation rounds since the best one: the consecutive rounds in which
\* the metric has failed to improve.
FailedRounds(hist) == Len(hist) - BestRound(hist)

Halted == pc \in {"train_end", "trained", "done"}

\* C7: training goes on only while fewer than 2 consecutive evaluation rounds
\* have failed to improve the metric of --metric_for_best_model; a halt before
\* max_steps comes after exactly 2 such rounds, never after 1; that halt is a
\* normal end (no error); when trainer.train() has returned the model holds
\* the weights of the best checkpoint by that metric, and the weights are
\* saved only then, and are those.
C7_EarlyStoppingAndBestRestore ==
  /\ (saved_weights # Unsaved => pc = "done")
  /\ (training_args.set /\ eval_history # <<>>) =>
       LET failed == FailedRounds(eval_history)
           best_step == BestRound(eval_history) * training_args.eval_steps
       IN  /\ (pc \in {"training", "evaluating"} => failed < 2)
           /\ (failed >= 2 => Halted /\ error = "")
           /\ (Halted /\ state.global_step < state.max_steps => failed = 2)
           /\ (pc \in {"trained", "done"} => model_weights = best_step)
           /\ (pc = "done" => saved_weights = best_step)

\* A run halted before max_steps after at least three evaluation rounds, with
\* the best checkpoint, older than the last step, restored and saved.
C7_Witness ==
  /\ pc = "done"
  /\ state.global_step < state.max_steps
  /\ Len(eval_history) >= 3
  /\ FailedRounds(eval_history) = 2
  /\ saved_weights = state.best_model_checkpoint
  /\ saved_weights < state.global_step

\* -------------------------------------------------------------------- C8
\* Python's round(n * ratio / 100): to the nearest integer, halves to even.
Round(n, ratio) ==
  LET q == (n * ratio) \div 100
      rem == (n * ratio) % 100
  IN  IF rem > 50 \/ (rem = 50 /\ q % 2 = 1) THEN q + 1 ELSE q

Abs(x) == IF x < 0 THEN 0 - x ELSE x

\* C8: the split partitions the dataset (every example in exactly one of the
\* two subsets, the sizes adding up to N), the validation size is
\* round(N * r) within 1, and two runs with the same seed, ratio and dataset
\* put the same examples into validation.
C8_SplitPartitionsReproducibly ==
  /\ \A r \in Runs : runs[r].pc = "split" =>
       /\ Range(runs[r].X_train) \cup Range(runs[r].X_val) = 1..runs[r].n
       /\ Range(runs[r].X_train) \cap Range(runs[r].X_val) = {}
       /\ Cardinality(Range(runs[r].X_train)) = Len(runs[r].X_train)
       /\ Cardinality(Range(runs[r].X_val)) = Len(runs[r].X_val)
       /\ Len(runs[r].X_train) + Len(runs[r].X_val) = runs[r].n
       /\ Abs(Len(runs[r].X_val) - Round(runs[r].n, runs[r].split_ratio)) <= 1
  /\ \A r, q \in Runs :
       (/\ runs[r].pc = "split" /\ runs[q].pc = "split"
        /\ runs[r].seed = runs[q].seed
        /\ runs[r].split_ratio = runs[q].split_ratio
        /\ runs[r].n = runs[q].n)
       => /\ Range(runs[r].X_val) = Range(runs[q].X_val)
          /\ runs[r].X_val = runs[q].X_val
          /\ runs[r].X_train = runs[q].X_train

\* Two finished runs with the same seed, ratio and dataset, started with
\* different states of the global generator, a validation set of two or more
\* examples that is not simply the first ones, and a size above round(N * r).
C8_Witness ==
  /\ runs[1].pc = "split" /\ runs[2].pc = "split"
  /\ runs[1].seed = runs[2].seed
  /\ runs[1].split_ratio = runs[2].split_ratio
  /\ runs[1].n = runs[2].n
  /\ runs[1].np_random # runs[2].np_random
  /\ Len(runs[1].X_val) >= 2
  /\ Len(runs[1].X_val) > Round(runs[1].n, runs[1].split_ratio)
  /\ runs[1].X_val # <<1, 2>>

\* -------------------------------------------------------------------- C9
\* C9: the total the built schedule decays over equals the num_training_steps
\* value stored at trainer construction (epochs * dataset size / batch size).
C9_ScheduleUsesStoredTotal ==
  (trainer.set /\ lr_scheduler.kind \in {"linear", "cosine_with_restarts"}) =>
     lr_scheduler.num_training_steps = trainer.num_training_steps

\* -------------------------------------------------------------------- C10
\* C10: every hyperparameter handed to the training loop equals the CLI flag
\* of the same meaning; the weight decay equals --weight_decay.
C10_HyperparametersFromFlags ==
  training_args.set =>
     /\ training_args.num_train_epochs = args.epochs
     /\ training_args.learning_rate = args.lr
     /\ training_args.per_device_train_batch_size = args.batch
     /\ training_args.per_device_eval_batch_size = args.batch_valid
     /\ training_args.warmup_steps = args.warmup_steps
     /\ training_args.metric_for_best_model = args.metric_for_best_model
     /\ training_args.weight_decay = args.weight_decay

====
